---------------------------- MODULE Spec2Model ----------------------------
(***************************************************************************)
(* A state-machine model of vidstab/VidStab.py: the VidStab object, its    *)
(* frame deques, the accumulated trajectory and the two entry points       *)
(* gen_transforms and stabilize.                                           *)
(*                                                                         *)
(* Frames are identified by their position in the source (0 is the first   *)
(* frame the capture returns).  A motion delta is a triple <<dx, dy, da>>  *)
(* of integers standing for the floats of the program.  Smoothed values    *)
(* and compensation transforms are triples of exact rationals <<n, d>>;    *)
(* a rational with denominator 0 is an undefined (NaN) value.              *)
(***************************************************************************)
EXTENDS Integers, Sequences, FiniteSets, TLC

(***************************************************************************)
(* Bounds of the model.                                                    *)
(***************************************************************************)
MaxWindow == 4
MaxSrcLen == 6
MaxCap == 3
MaxSmoothLen == 4
MaxSmoothVal == 2
MaxSide == 6
MaxBorder == 2

\* float('inf'), the default of max_frames: larger than any index.
Inf == 1000000

Windows == 1..MaxWindow
SrcLens == 0..MaxSrcLen
Caps == (1..MaxCap) \cup {Inf}

BorderTypes == {"black", "reflect", "replicate", "trail", "mirror"}

\* What cv2.estimateRigidTransform can give for a frame pair: None (<<>>)
\* or a fit, already reduced to (dx, dy, da).
NoFit == <<>>
FitResults == {<<2, -1, 1>>}
FitOutcomes == {NoFit} \cup FitResults

\* The estimator is deterministic: a pair of frames already estimated
\* gives the same fit again, a new pair any of the outcomes.
FitsOfPair(fits, p) == IF p <= Len(fits) THEN {fits[p]} ELSE FitOutcomes
RecordFit(fits, p, fit) == IF p <= Len(fits) THEN fits ELSE Append(fits, fit)

\* cv2.waitKey: some other value (no key), ord("q") or ESC.
Keys == {"none", "q"}

VARIABLES
    pc,                    \* position of the running call
    err,                   \* the exception that ended the call, "" if none
    op,                    \* "gen_transforms" or "stabilize"
    smoothing_window,      \* argument of the call
    max_frames,            \* argument of the call
    border_type,           \* argument of the call
    use_stored_transforms, \* argument of the call
    playback,              \* argument of the call
    layer_func,            \* argument of the call: TRUE when one is given
    short_policy,          \* what bfill_rolling_mean does below n rows
    vid_cap,               \* the capture: [len, pos, opened, released]
    reads,                 \* calls of vid_cap.read() made by this call
    exhausted,             \* a read of this call returned grabbed = False
    frame_queue,           \* self.frame_queue
    frame_queue_inds,      \* self.frame_queue_inds
    prev_frame,            \* local of _apply_transforms (-1: unset)
    grabbed_frame,         \* local of the running loop
    prev_gray,             \* self.prev_gray: the frame it was taken from
    prev_kps,              \* self.prev_kps: the frame they were detected on
    raw_transforms,        \* self._raw_transforms
    acc_trajectory,        \* self._trajectory
    trajectory,            \* self.trajectory
    smoothed_trajectory,   \* self.smoothed_trajectory
    transforms,            \* self.transforms
    writer,                \* self.writer: "None", "open" or "released"
    written,               \* what this call handed to writer.write, and when
    last_break,            \* why the render loop was left, "" while inside
    source,                \* the video at input_path: [len, fits]
    calls,                 \* calls made on this VidStab so far
    at_call,               \* the instance's arrays when the call started
    shape_in,              \* a frame's (h, v) and the border_size asked for
    shape_out              \* the (h, v) of the frame rendered from shape_in

vars == <<pc, err, op, smoothing_window, max_frames, border_type,
          use_stored_transforms, playback, short_policy, vid_cap, reads,
          exhausted, frame_queue, frame_queue_inds, prev_frame,
          grabbed_frame, prev_gray, prev_kps, raw_transforms,
          acc_trajectory, trajectory, smoothed_trajectory, transforms,
          writer, written, last_break, layer_func, source, calls, at_call,
          shape_in, shape_out>>

args == <<op, smoothing_window, max_frames, border_type,
          use_stored_transforms, playback, layer_func, short_policy>>
session == <<calls, at_call>>
shape == <<shape_in, shape_out>>
detector == <<prev_gray, prev_kps>>
accum == <<raw_transforms, acc_trajectory>>
arrays == <<trajectory, smoothed_trajectory, transforms>>
queues == <<frame_queue, frame_queue_inds>>
sink == <<writer, written>>

(***************************************************************************)
(* Arithmetic on triples and on rationals.                                 *)
(***************************************************************************)
Abs(x) == IF x < 0 THEN -x ELSE x
Min(a, b) == IF a <= b THEN a ELSE b

RECURSIVE Gcd(_, _)
Gcd(a, b) == IF b = 0 THEN a ELSE Gcd(b, a % b)

NaN == <<0, 0>>
IsNaN(r) == r[2] = 0

\* n/d in lowest terms with a positive denominator (d # 0).
Rat(n, d) ==
    LET g == Gcd(Abs(n), Abs(d))
        s == IF d < 0 THEN -1 ELSE 1
    IN <<(s * n) \div g, (s * d) \div g>>

RatOfInt(k) == <<k, 1>>

RatAdd(a, b) ==
    IF IsNaN(a) \/ IsNaN(b) THEN NaN
    ELSE Rat(a[1] * b[2] + b[1] * a[2], a[2] * b[2])

RatSub(a, b) ==
    IF IsNaN(a) \/ IsNaN(b) THEN NaN
    ELSE Rat(a[1] * b[2] - b[1] * a[2], a[2] * b[2])

Zero3 == <<0, 0, 0>>
Add3(a, b) == <<a[1] + b[1], a[2] + b[2], a[3] + b[3]>>

RECURSIVE Sum3(_, _, _)
\* componentwise sum of s[lo..hi]
Sum3(s, lo, hi) == IF hi < lo THEN Zero3 ELSE Add3(Sum3(s, lo, hi - 1), s[hi])

(***************************************************************************)
(* collections.deque(maxlen = n): append drops the leftmost entry of a     *)
(* full deque.                                                             *)
(***************************************************************************)
\* mutant: a deque made without maxlen
DequeAppendUnbounded(q, x, maxlen) == Append(q, x)

DequeAppend(q, x, maxlen) ==
    IF Len(q) >= maxlen THEN Append(Tail(q), x) ELSE Append(q, x)

\* mutant: pop() where popleft() is meant
PopRight(q) == [value |-> q[Len(q)], rest |-> SubSeq(q, 1, Len(q) - 1)]

\* deque.popleft() on a non-empty deque: the value popped and what is left
PopLeft(q) == [value |-> Head(q), rest |-> Tail(q)]

\* frame_queue_inds.append(0) on an empty deque, else last + 1
NextInd(inds) == IF inds = <<>> THEN 0 ELSE inds[Len(inds)] + 1

(***************************************************************************)
(* _gen_next_raw_transform                                                 *)
(***************************************************************************)
\* transform_i: [dx, dy, da] of the fit, or zeros when the fit is None
DeltaOfFitStale(fit) == IF fit = NoFit THEN <<2, -1, 1>> ELSE fit

DeltaOfFit(fit) == IF fit = NoFit THEN Zero3 ELSE fit

\* mutant: the new row is the delta itself, not the running sum
NextTrajectoryNoSum(traj, transform_i) == Append(traj, transform_i)

\* self._trajectory after appending the cumulative row for transform_i
NextTrajectory(traj, transform_i) ==
    IF traj = <<>>
    THEN Append(traj, transform_i)
    ELSE Append(traj, Add3(traj[Len(traj)], transform_i))

(***************************************************************************)
(* utils.bfill_rolling_mean(arr, n): trailing rolling mean of window n,    *)
(* the first n - 1 rows back-filled with the first full-window mean.       *)
(* Below n rows there is no full window: the function then raises or       *)
(* leaves every row undefined, as short_policy says.                       *)
(***************************************************************************)
WindowMean(arr, i, n) ==
    LET total == Sum3(arr, i - n + 1, i)
    IN <<Rat(total[1], n), Rat(total[2], n), Rat(total[3], n)>>

NaN3 == <<NaN, NaN, NaN>>

BfillRaises(arr, n, policy) == Len(arr) < n /\ policy = "raise"

BfillRollingMeanNoFill(arr, n) ==
    IF Len(arr) < n
    THEN [i \in 1..Len(arr) |-> NaN3]
    ELSE [i \in 1..Len(arr) |->
             IF i > n THEN WindowMean(arr, i, n) ELSE WindowMean(arr, i, i)]

BfillRollingMean(arr, n) ==
    IF Len(arr) < n
    THEN [i \in 1..Len(arr) |-> NaN3]
    ELSE LET first == WindowMean(arr, n, n)
         IN [i \in 1..Len(arr) |->
                IF i > n THEN WindowMean(arr, i, n) ELSE first]

(***************************************************************************)
(* _gen_transforms                                                         *)
(***************************************************************************)
\* np.array(self._raw_transforms) + (self.smoothed_trajectory - self.trajectory)
CompensateSwapped(raw_j, smoothed_j, traj_j) ==
    RatAdd(RatOfInt(raw_j), RatSub(RatOfInt(traj_j), smoothed_j))

Compensate(raw_j, smoothed_j, traj_j) ==
    RatAdd(RatOfInt(raw_j), RatSub(smoothed_j, RatOfInt(traj_j)))

Compensation(raw, smoothed, traj) ==
    [i \in 1..Len(raw) |->
        <<Compensate(raw[i][1], smoothed[i][1], traj[i][1]),
          Compensate(raw[i][2], smoothed[i][2], traj[i][2]),
          Compensate(raw[i][3], smoothed[i][3], traj[i][3])>>]

GenTransformsWholeMean(traj, raw) ==
    /\ trajectory' = traj
    /\ smoothed_trajectory' = BfillRollingMean(traj, Len(traj))
    /\ transforms' = Compensation(raw, smoothed_trajectory', traj)

\* The three assignments; the second raises when the smoother does.
GenTransformsOk(traj, raw) ==
    /\ trajectory' = traj
    /\ smoothed_trajectory' = BfillRollingMean(traj, smoothing_window)
    /\ transforms' = Compensation(raw, smoothed_trajectory', traj)

GenTransformsRaise(traj) ==
    /\ trajectory' = traj
    /\ UNCHANGED <<smoothed_trajectory, transforms>>

(***************************************************************************)
(* Initial state: a fresh VidStab (__init__), no call made yet.            *)
(***************************************************************************)
NoCapture == [len |-> 0, pos |-> 0, opened |-> FALSE, released |-> FALSE]

\* A frame as _apply_transforms holds it in prev_frame: a frame of the
\* source as read, or the output rendered from one (None before that).
NoFrame == [kind |-> "none", frame |-> -1]
SourceFrame(f) == [kind |-> "source", frame |-> f]
OutputFrame(f) == [kind |-> "output", frame |-> f]

\* The video a call opens: its number of frames and, for each pair of
\* consecutive frames estimated so far, what the rigid fit gives on it.
NoSource == [len |-> 0, fits |-> <<>>]

\* What the instance holds from earlier calls.
Stored ==
    [raw |-> raw_transforms, trajectory |-> trajectory,
     smoothed |-> smoothed_trajectory, transforms |-> transforms,
     writer |-> writer]

NoShape == [h |-> 0, v |-> 0, border_size |-> 0]

Init ==
    /\ pc = "idle"
    /\ err = ""
    /\ op = "none"
    /\ smoothing_window = 1
    /\ max_frames = Inf
    /\ border_type = "black"
    /\ use_stored_transforms = FALSE
    /\ playback = FALSE
    /\ layer_func = FALSE
    /\ short_policy \in {"raise", "nan"}
    /\ vid_cap = NoCapture
    /\ reads = 0
    /\ exhausted = FALSE
    /\ frame_queue = <<>>
    /\ frame_queue_inds = <<>>
    /\ prev_frame = NoFrame
    /\ grabbed_frame = FALSE
    /\ prev_gray = -1
    /\ prev_kps = -1
    /\ raw_transforms = <<>>
    /\ acc_trajectory = <<>>
    /\ trajectory = <<>>
    /\ smoothed_trajectory = <<>>
    /\ transforms = <<>>
    /\ writer = "None"
    /\ written = <<>>
    /\ last_break = ""
    /\ source = NoSource
    /\ calls = 0
    /\ at_call = Stored
    /\ shape_in = NoShape
    /\ shape_out = <<0, 0>>

\* What every call sets up before its first read: the capture and two
\* empty deques of maxlen smoothing_window.
OpenCall(n) ==
    /\ vid_cap' = [len |-> n, pos |-> 0, opened |-> TRUE, released |-> FALSE]
    /\ frame_queue' = <<>>
    /\ frame_queue_inds' = <<>>
    /\ reads' = 0
    /\ exhausted' = FALSE
    /\ written' = <<>>
    /\ last_break' = ""
    /\ err' = ""
    /\ prev_frame' = NoFrame
    /\ grabbed_frame' = FALSE
    /\ calls' = calls + 1
    /\ at_call' = Stored

(***************************************************************************)
(* gen_transforms(input_path, smoothing_window): up to _init_trajectory.   *)
(***************************************************************************)
CallGenTransforms ==
    /\ pc = "idle"
    /\ \E w \in Windows, n \in SrcLens :
        /\ op' = "gen_transforms"
        /\ smoothing_window' = w
        /\ max_frames' = Inf
        /\ OpenCall(n)
        /\ source' = [len |-> n, fits |-> <<>>]
    /\ pc' = "init_first"
    /\ UNCHANGED <<border_type, use_stored_transforms, playback, layer_func,
                   short_policy, detector, accum, arrays, writer, shape>>

(***************************************************************************)
(* stabilize(...): up to _init_trajectory or, with use_stored_transforms,  *)
(* up to _apply_transforms.                                                *)
(***************************************************************************)
\* layer_func is None or a function; the border type only selects the
\* cv2 border mode, so a function is tried with the default border type.
LayerFuncs(bt) == IF bt = "black" THEN BOOLEAN ELSE {FALSE}

CallStabilize ==
    /\ pc = "idle"
    /\ \E w \in Windows, m \in Caps, bt \in BorderTypes, ust \in BOOLEAN,
          pb \in BOOLEAN, n \in SrcLens :
      \E lf \in LayerFuncs(bt) :
        /\ op' = "stabilize"
        /\ smoothing_window' = w
        /\ max_frames' = m
        /\ border_type' = bt
        /\ use_stored_transforms' = ust
        /\ playback' = pb
        /\ layer_func' = lf
        /\ OpenCall(n)
        /\ source' = [len |-> n, fits |-> <<>>]
        /\ pc' = IF ust THEN "apply_begin" ELSE "init_first"
    /\ UNCHANGED <<short_policy, detector, accum, arrays, writer, shape>>

(***************************************************************************)
(* _init_trajectory, lines 143-167: the first read seeds the detector      *)
(* state and the frame deque.  On an empty source read() gives             *)
(* (False, None) and cv2.cvtColor(None, ...) raises.                       *)
(***************************************************************************)
InitFirstRead ==
    /\ pc = "init_first"
    /\ reads' = reads + 1
    /\ IF vid_cap.pos < vid_cap.len
       THEN /\ vid_cap' = [vid_cap EXCEPT !.pos = @ + 1]
            /\ frame_queue' = DequeAppend(frame_queue, vid_cap.pos, smoothing_window)
            /\ prev_gray' = vid_cap.pos
            /\ prev_kps' = vid_cap.pos
            /\ grabbed_frame' = TRUE
            /\ pc' = "init_loop"
            /\ UNCHANGED <<err, exhausted>>
       ELSE /\ exhausted' = TRUE
            /\ pc' = "error"
            /\ err' = "cv2.error"
            /\ UNCHANGED <<vid_cap, frame_queue, detector, grabbed_frame>>
    /\ UNCHANGED <<args, session, shape, source, frame_queue_inds, prev_frame, accum, arrays, sink,
                   last_break>>

(***************************************************************************)
(* _init_trajectory, lines 169-190: one iteration of the while loop.       *)
(***************************************************************************)
\* mutant: stop filling after the first frame pair, whatever the window
InitBreakEarly(gen_all, last_ind, cap, window) == ~gen_all /\ last_ind >= 0

\* lines 184-187: stop filling once the cap or the window is reached
InitBreak(gen_all, last_ind, cap, window) ==
    /\ ~gen_all
    /\ (last_ind >= cap - 1 \/ last_ind >= window - 1)

InitLoopRead ==
    /\ pc = "init_loop"
    /\ vid_cap.pos < vid_cap.len
    /\ \E fit \in FitsOfPair(source.fits, vid_cap.pos) :
        LET cur_frame == vid_cap.pos
            inds == DequeAppend(frame_queue_inds, NextInd(frame_queue_inds),
                                smoothing_window)
            transform_i == DeltaOfFit(fit)
        IN /\ vid_cap' = [vid_cap EXCEPT !.pos = @ + 1]
           /\ reads' = reads + 1
           /\ frame_queue' = DequeAppend(frame_queue, cur_frame, smoothing_window)
           /\ frame_queue_inds' = inds
           /\ prev_gray' = cur_frame
           /\ prev_kps' = cur_frame
           /\ raw_transforms' = Append(raw_transforms, transform_i)
           /\ acc_trajectory' = NextTrajectory(acc_trajectory, transform_i)
           /\ source' = [source EXCEPT !.fits = RecordFit(@, cur_frame, fit)]
           /\ pc' = IF InitBreak(op = "gen_transforms", inds[Len(inds)],
                                 max_frames, smoothing_window)
                    THEN "init_gen" ELSE "init_loop"
    /\ UNCHANGED <<args, session, shape, err, exhausted, prev_frame, grabbed_frame, arrays,
                   sink, last_break>>

InitLoopExhausted ==
    /\ pc = "init_loop"
    /\ vid_cap.pos >= vid_cap.len
    /\ reads' = reads + 1
    /\ exhausted' = TRUE
    /\ grabbed_frame' = FALSE
    /\ pc' = "init_gen"
    /\ UNCHANGED <<args, session, shape, source, err, vid_cap, queues, prev_frame, detector, accum,
                   arrays, sink, last_break>>

(***************************************************************************)
(* _init_trajectory, line 192: self._gen_transforms(smoothing_window);     *)
(* gen_transforms then returns, stabilize goes on to _apply_transforms.    *)
(***************************************************************************)
InitGenTransforms ==
    /\ pc = "init_gen"
    /\ IF BfillRaises(acc_trajectory, smoothing_window, short_policy)
       THEN /\ GenTransformsRaise(acc_trajectory)
            /\ pc' = "error"
            /\ err' = "bfill_rolling_mean"
       ELSE /\ GenTransformsOk(acc_trajectory, raw_transforms)
            /\ pc' = IF op = "gen_transforms" THEN "done" ELSE "apply_begin"
            /\ err' = err
    /\ UNCHANGED <<args, session, shape, source, vid_cap, reads, exhausted, queues, prev_frame,
                   grabbed_frame, detector, accum, sink, last_break>>

(***************************************************************************)
(* _apply_transforms, lines 208-229: border configuration and the first    *)
(* popleft.                                                                *)
(***************************************************************************)
\* line 208
BorderTypeAccepted(bt) == bt \in {"black", "reflect", "replicate", "trail"}

\* lines 211-214: the keys of border_modes
BorderModeKnown(bt) == bt \in {"black", "reflect", "replicate"}

ApplyBegin ==
    /\ pc = "apply_begin"
    /\ IF ~BorderTypeAccepted(border_type)
       THEN /\ pc' = "error"
            /\ err' = "ValueError: Invalid border type"
            /\ UNCHANGED <<frame_queue, prev_frame, grabbed_frame>>
       ELSE IF ~BorderModeKnown(border_type)
       THEN /\ pc' = "error"
            /\ err' = "KeyError: border_modes"
            /\ UNCHANGED <<frame_queue, prev_frame, grabbed_frame>>
       ELSE IF frame_queue = <<>>
       THEN /\ pc' = "error"
            /\ err' = "IndexError: pop from an empty deque"
            /\ UNCHANGED <<frame_queue, prev_frame, grabbed_frame>>
       ELSE /\ prev_frame' = SourceFrame(PopLeft(frame_queue).value)
            /\ frame_queue' = PopLeft(frame_queue).rest
            /\ grabbed_frame' = TRUE
            /\ pc' = "render_loop"
            /\ err' = err
    /\ UNCHANGED <<args, session, shape, source, vid_cap, reads, exhausted, frame_queue_inds,
                   detector, accum, arrays, sink, last_break>>

(***************************************************************************)
(* _apply_transforms, lines 230-301: one iteration of the render loop.     *)
(* The iteration reads, appends and re-smooths when a frame was grabbed,   *)
(* pops the oldest index and frame, and then breaks on the cap, breaks on  *)
(* a quit key, or writes.  Any of lines 237, 239, 241, 242 and 243 can     *)
(* raise; the state then keeps what the lines before it did.               *)
(***************************************************************************)
\* line 230
LoopCondition(queue, grabbed) == Len(queue) > 0 \/ grabbed

\* mutant: off by one, i > max_frames
CapReachedLate(i, cap) == i > cap

\* line 245
CapReached(i, cap) == i >= cap

\* line 293
QuitKey(key) == key = "q"

\* line 274
LayerApplies(i) == i > 1

RenderIter ==
    /\ pc = "render_loop"
    /\ LoopCondition(frame_queue, grabbed_frame)
    /\ \E fit \in FitsOfPair(source.fits, vid_cap.pos), key \in Keys :
        LET ok == vid_cap.pos < vid_cap.len
            next_frame == vid_cap.pos
            no_inds == ok /\ frame_queue_inds = <<>>
            appended == ok /\ ~no_inds
            q1 == IF ok
                  THEN DequeAppend(frame_queue, next_frame, smoothing_window)
                  ELSE frame_queue
            i1 == IF appended
                  THEN DequeAppend(frame_queue_inds,
                                   frame_queue_inds[Len(frame_queue_inds)] + 1,
                                   smoothing_window)
                  ELSE frame_queue_inds
            delta == DeltaOfFit(fit)
            raw1 == IF appended THEN Append(raw_transforms, delta)
                    ELSE raw_transforms
            acc1 == IF appended THEN NextTrajectory(acc_trajectory, delta)
                    ELSE acc_trajectory
            raises == appended /\ BfillRaises(acc1, smoothing_window, short_policy)
            regen == appended /\ ~raises
            n_transforms == IF regen THEN Len(raw1) ELSE Len(transforms)
            i == PopLeft(i1).value
            frame_i == PopLeft(q1).value
            outcome ==
                IF no_inds THEN "IndexError: frame_queue_inds[-1]"
                ELSE IF raises THEN "bfill_rolling_mean"
                ELSE IF i1 = <<>> THEN "IndexError: pop from an empty deque (inds)"
                ELSE IF q1 = <<>> THEN "IndexError: pop from an empty deque"
                ELSE IF i + 1 > n_transforms THEN "IndexError: transforms"
                ELSE IF CapReached(i, max_frames) THEN "cap"
                ELSE IF playback /\ QuitKey(key) THEN "quit"
                ELSE "write"
            inds_popped == outcome \notin {"IndexError: frame_queue_inds[-1]",
                                           "bfill_rolling_mean",
                                           "IndexError: pop from an empty deque (inds)"}
            frame_popped == inds_popped
                            /\ outcome # "IndexError: pop from an empty deque"
            writer1 == IF writer = "None" THEN "open" ELSE writer
            rendered == outcome \in {"quit", "write"}
            layered == layer_func /\ LayerApplies(i)
        IN /\ vid_cap' = IF ok THEN [vid_cap EXCEPT !.pos = @ + 1] ELSE vid_cap
           /\ reads' = reads + 1
           /\ exhausted' = (exhausted \/ ~ok)
           /\ grabbed_frame' = ok
           /\ frame_queue' = IF frame_popped THEN PopLeft(q1).rest ELSE q1
           /\ frame_queue_inds' = IF inds_popped THEN PopLeft(i1).rest ELSE i1
           /\ prev_gray' = IF appended THEN next_frame ELSE prev_gray
           /\ prev_kps' = IF appended THEN next_frame ELSE prev_kps
           /\ raw_transforms' = raw1
           /\ acc_trajectory' = acc1
           /\ source' = IF appended
                        THEN [source EXCEPT !.fits = RecordFit(@, next_frame, fit)]
                        ELSE source
           /\ prev_frame' = IF rendered /\ layer_func
                            THEN OutputFrame(frame_i) ELSE prev_frame
           /\ IF regen
              THEN GenTransformsOk(acc1, raw1)
              ELSE IF raises
              THEN GenTransformsRaise(acc1)
              ELSE UNCHANGED arrays
           /\ IF outcome = "write"
              THEN /\ writer' = writer1
                   /\ written' = Append(written,
                                        [frame |-> frame_i, index |-> i,
                                         transform |-> transforms'[i + 1],
                                         n_transforms |-> Len(transforms'),
                                         delta |-> raw_transforms'[i + 1],
                                         smoothed |-> smoothed_trajectory'[i + 1],
                                         traj |-> trajectory'[i + 1],
                                         layered |-> layered,
                                         background |-> IF layered THEN prev_frame
                                                        ELSE NoFrame,
                                         sink |-> writer1,
                                         admitted |-> vid_cap'.pos,
                                         exhausted |-> exhausted'])
                   /\ pc' = "render_loop"
                   /\ UNCHANGED <<err, last_break>>
              ELSE IF outcome \in {"cap", "quit"}
              THEN /\ pc' = "release"
                   /\ last_break' = outcome
                   /\ UNCHANGED <<err, sink>>
              ELSE /\ pc' = "error"
                   /\ err' = outcome
                   /\ UNCHANGED <<sink, last_break>>
    /\ UNCHANGED <<args, session, shape>>

\* line 230 with the condition false: the loop is over.
RenderLoopExit ==
    /\ pc = "render_loop"
    /\ ~LoopCondition(frame_queue, grabbed_frame)
    /\ pc' = "release"
    /\ last_break' = "drained"
    /\ UNCHANGED <<args, session, shape, source, err, vid_cap, reads, exhausted, queues, prev_frame,
                   grabbed_frame, detector, accum, arrays, sink>>

(***************************************************************************)
(* _apply_transforms, lines 303-306, and the end of stabilize, 388-390:    *)
(* self.writer.release() raises on None; nothing closes vid_cap.           *)
(***************************************************************************)
ReleaseWriter ==
    /\ pc = "release"
    /\ IF writer = "None"
       THEN /\ pc' = "error"
            /\ err' = "AttributeError: NoneType has no release"
            /\ writer' = writer
       ELSE /\ pc' = "done"
            /\ writer' = "released"
            /\ err' = err
    /\ UNCHANGED <<args, session, shape, source, vid_cap, reads, exhausted, queues, prev_frame,
                   grabbed_frame, detector, accum, arrays, written, last_break>>

Next ==
    \/ CallGenTransforms
    \/ CallStabilize
    \/ InitFirstRead
    \/ InitLoopRead
    \/ InitLoopExhausted
    \/ InitGenTransforms
    \/ ApplyBegin
    \/ RenderIter
    \/ RenderLoopExit
    \/ ReleaseWriter

Spec == Init /\ [][Next]_vars

(***************************************************************************)
(* The smoother on its own: bfill_rolling_mean(trajectory, n) applied to   *)
(* a trajectory of at least n rows, as _gen_transforms calls it.           *)
(***************************************************************************)
TrajectoryRow(x) == <<x, -x, 2 * x>>
SmoothRows == {TrajectoryRow(x) : x \in 0..MaxSmoothVal}
ExampleTrajectory == [i \in 1..7 |-> TrajectoryRow(i)]

RECURSIVE SeqsUpTo(_, _)
SeqsUpTo(S, n) ==
    IF n = 0 THEN {<<>>}
    ELSE LET shorter == SeqsUpTo(S, n - 1)
         IN shorter \cup {Append(q, x) : q \in {r \in shorter : Len(r) = n - 1},
                                         x \in S}

SmoothInputs == (SeqsUpTo(SmoothRows, MaxSmoothLen) \ {<<>>}) \cup {ExampleTrajectory}

InitSmooth ==
    /\ pc = "smooth"
    /\ err = ""
    /\ op = "none"
    /\ max_frames = Inf
    /\ border_type = "black"
    /\ use_stored_transforms = FALSE
    /\ playback = FALSE
    /\ layer_func = FALSE
    /\ short_policy \in {"raise", "nan"}
    /\ vid_cap = NoCapture
    /\ reads = 0
    /\ exhausted = FALSE
    /\ frame_queue = <<>>
    /\ frame_queue_inds = <<>>
    /\ prev_frame = NoFrame
    /\ grabbed_frame = FALSE
    /\ prev_gray = -1
    /\ prev_kps = -1
    /\ raw_transforms = <<>>
    /\ acc_trajectory \in SmoothInputs
    /\ smoothing_window \in 1..Len(acc_trajectory)
    /\ trajectory = <<>>
    /\ smoothed_trajectory = <<>>
    /\ transforms = <<>>
    /\ writer = "None"
    /\ written = <<>>
    /\ last_break = ""
    /\ source = NoSource
    /\ calls = 0
    /\ at_call = Stored
    /\ shape_in = NoShape
    /\ shape_out = <<0, 0>>

Smooth ==
    /\ pc = "smooth"
    /\ trajectory' = acc_trajectory
    /\ smoothed_trajectory' = BfillRollingMean(trajectory', smoothing_window)
    /\ pc' = "smoothed"
    /\ UNCHANGED <<args, session, shape, source, err, vid_cap, reads,
                   exhausted, queues, prev_frame, grabbed_frame, detector,
                   accum, transforms, sink, last_break>>

NextSmooth == Smooth

SpecSmooth == InitSmooth /\ [][NextSmooth]_vars

(***************************************************************************)
(* The shape of a rendered frame, _apply_transforms lines 216-225 and      *)
(* 257-271, for a source frame of h rows and v columns.                    *)
(***************************************************************************)
WarpSafetyBorder == 100

\* lines 216-220: (border_size, neg_border_size) as used from there on
BorderSizes(border_size) ==
    IF border_size < 0
    THEN <<WarpSafetyBorder, WarpSafetyBorder + Abs(border_size)>>
    ELSE <<border_size, 0>>

\* len(a[start:stop]) for a of n entries, start >= 0
SliceLen(n, start, stop) ==
    LET hi == IF stop < 0 THEN (IF n + stop < 0 THEN 0 ELSE n + stop)
              ELSE Min(stop, n)
        lo == Min(start, n)
    IN IF hi > lo THEN hi - lo ELSE 0

\* line 269
CropBufferNoNeg(bs, neg) == bs

CropBuffer(bs, neg) == bs + neg

\* transformed.shape[:2] after line 271
RenderedShape(h0, v0, border_size) ==
    LET bs == BorderSizes(border_size)[1]
        neg == BorderSizes(border_size)[2]
        h == h0 + 2 * bs
        w == v0 + 2 * bs
        dsize == <<w + bs * 2, h + bs * 2>>
        warped == <<dsize[2], dsize[1]>>
        buffer == CropBuffer(bs, neg)
    IN <<SliceLen(warped[1], buffer, warped[1] - buffer),
         SliceLen(warped[2], buffer, warped[2] - buffer)>>

InitShape ==
    /\ pc = "shape"
    /\ err = ""
    /\ op = "none"
    /\ smoothing_window = 1
    /\ max_frames = Inf
    /\ border_type = "black"
    /\ use_stored_transforms = FALSE
    /\ playback = FALSE
    /\ layer_func = FALSE
    /\ short_policy \in {"raise", "nan"}
    /\ vid_cap = NoCapture
    /\ reads = 0
    /\ exhausted = FALSE
    /\ frame_queue = <<>>
    /\ frame_queue_inds = <<>>
    /\ prev_frame = NoFrame
    /\ grabbed_frame = FALSE
    /\ prev_gray = -1
    /\ prev_kps = -1
    /\ raw_transforms = <<>>
    /\ acc_trajectory = <<>>
    /\ trajectory = <<>>
    /\ smoothed_trajectory = <<>>
    /\ transforms = <<>>
    /\ writer = "None"
    /\ written = <<>>
    /\ last_break = ""
    /\ source = NoSource
    /\ calls = 0
    /\ at_call = Stored
    /\ shape_in \in [h : 1..MaxSide, v : 1..MaxSide,
                      border_size : -MaxBorder..MaxBorder]
    /\ shape_out = <<0, 0>>

RenderShape ==
    /\ pc = "shape"
    /\ shape_out' = RenderedShape(shape_in.h, shape_in.v, shape_in.border_size)
    /\ pc' = "shaped"
    /\ UNCHANGED <<args, session, shape_in, source, err, vid_cap, reads,
                   exhausted, queues, prev_frame, grabbed_frame, detector,
                   accum, arrays, sink, last_break>>

NextShape == RenderShape

SpecShape == InitShape /\ [][NextShape]_vars

(***************************************************************************)
(* A second call on the same VidStab, made once gen_transforms has         *)
(* returned, on the same source.  __init__ is not run again: the instance  *)
(* keeps _raw_transforms, _trajectory, the arrays, the detector state and  *)
(* _smoothing_window (line 320) from the first call.                       *)
(***************************************************************************)
Analysed == pc = "done" /\ op = "gen_transforms" /\ calls = 1

\* gen_transforms(input_path, smoothing_window) with the same arguments.
CallGenTransformsAgain ==
    /\ Analysed
    /\ op' = "gen_transforms"
    /\ max_frames' = Inf
    /\ OpenCall(source.len)
    /\ pc' = "init_first"
    /\ UNCHANGED <<smoothing_window, border_type, use_stored_transforms,
                   playback, layer_func, short_policy, detector, accum,
                   arrays, writer, source, shape>>

\* apply_transforms(input_path, output_path), lines 308-312: stabilize with
\* smoothing_window=self._smoothing_window, max_frames=inf and
\* use_stored_transforms=False, the other arguments at their defaults.
CallApplyTransforms ==
    /\ Analysed
    /\ op' = "stabilize"
    /\ max_frames' = Inf
    /\ border_type' = "black"
    /\ use_stored_transforms' = FALSE
    /\ playback' = FALSE
    /\ layer_func' = FALSE
    /\ OpenCall(source.len)
    /\ pc' = "init_first"
    /\ UNCHANGED <<smoothing_window, short_policy, detector, accum, arrays,
                   writer, source, shape>>

\* stabilize(input_path, output_path, smoothing_window,
\* use_stored_transforms=True) with the window of the analysis: line 379
\* skips _init_trajectory.
CallStabilizeStored ==
    /\ Analysed
    /\ op' = "stabilize"
    /\ max_frames' = Inf
    /\ border_type' = "black"
    /\ use_stored_transforms' = TRUE
    /\ playback' = FALSE
    /\ layer_func' = FALSE
    /\ OpenCall(source.len)
    /\ pc' = "apply_begin"
    /\ UNCHANGED <<smoothing_window, short_policy, detector, accum, arrays,
                   writer, source, shape>>

NextTwo ==
    \/ CallGenTransforms
    \/ CallGenTransformsAgain
    \/ CallApplyTransforms
    \/ CallStabilizeStored
    \/ InitFirstRead
    \/ InitLoopRead
    \/ InitLoopExhausted
    \/ InitGenTransforms
    \/ ApplyBegin
    \/ RenderIter
    \/ RenderLoopExit
    \/ ReleaseWriter

SpecTwo == Init /\ [][NextTwo]_vars

(***************************************************************************)
(* stabilize called twice on the same VidStab with the same arguments,     *)
(* the second call made once the first has returned.  Only __init__        *)
(* (line 89) sets self.writer to None.                                     *)
(***************************************************************************)
\* stabilize(input_path, output_path, smoothing_window, max_frames), the
\* other arguments at their defaults.
CallStabilizeDefaults ==
    /\ pc = "idle"
    /\ \E w \in Windows, m \in Caps, n \in SrcLens :
        /\ op' = "stabilize"
        /\ smoothing_window' = w
        /\ max_frames' = m
        /\ border_type' = "black"
        /\ use_stored_transforms' = FALSE
        /\ playback' = FALSE
        /\ layer_func' = FALSE
        /\ OpenCall(n)
        /\ source' = [len |-> n, fits |-> <<>>]
        /\ pc' = "init_first"
    /\ UNCHANGED <<short_policy, detector, accum, arrays, writer, shape>>

Stabilized == pc = "done" /\ op = "stabilize" /\ calls = 1

CallStabilizeAgain ==
    /\ Stabilized
    /\ OpenCall(source.len)
    /\ pc' = "init_first"
    /\ UNCHANGED <<args, detector, accum, arrays, writer, source, shape>>

NextAgain ==
    \/ CallStabilizeDefaults
    \/ CallStabilizeAgain
    \/ InitFirstRead
    \/ InitLoopRead
    \/ InitLoopExhausted
    \/ InitGenTransforms
    \/ ApplyBegin
    \/ RenderIter
    \/ RenderLoopExit
    \/ ReleaseWriter

SpecAgain == Init /\ [][NextAgain]_vars

(***************************************************************************)
(*                              Properties                                 *)
(***************************************************************************)
Stabilizing == op = "stabilize"
Ended == pc \in {"done", "error"}
WrittenFrames == {written[k].frame : k \in 1..Len(written)}
QueuedFrames == {frame_queue[k] : k \in 1..Len(frame_queue)}

\* C1: the source positions of the frames written by a run of stabilize are
\* strictly increasing: no frame is written twice or after a later one.
C1_WrittenInSourceOrder ==
    \A a, b \in 1..Len(written) :
        a < b => written[a].frame < written[b].frame

C1_Witness ==
    /\ Stabilizing /\ pc = "done"
    /\ Len(written) >= 3
    /\ written[1].frame >= 2

\* C2: when stabilize raises the invalid-border-type error, no frame has
\* been read from the source and no motion delta has been accumulated.
\* Stated for a smoother that raises below its window, so that every run
\* that gets as far as the border check ran the smoother inside its domain.
C2_BorderErrorBeforeAnyRead ==
    (/\ Stabilizing /\ short_policy = "raise"
     /\ err = "ValueError: Invalid border type")
        => (reads = 0 /\ raw_transforms = <<>>)

\* C3: each of black, reflect, replicate and trail passes the border
\* configuration of stabilize without an error.
C3_DocumentedBordersAccepted ==
    (Stabilizing /\ border_type \in {"black", "reflect", "replicate", "trail"})
        => err \notin {"ValueError: Invalid border type",
                       "KeyError: border_modes"}

\* C4: a stabilize run on a source of at least two frames, with no cap and
\* no quit, that has seen the source exhausted ends without error, with the
\* frame buffer empty and the sink closed.  Stated for a smoother that
\* never raises, so that a violation is the render loop's own.
C4_DrainsAfterExhaustion ==
    (/\ Stabilizing /\ ~use_stored_transforms
     /\ BorderModeKnown(border_type)
     /\ max_frames = Inf /\ last_break # "quit"
     /\ vid_cap.len >= 2
     /\ short_policy = "nan"
     /\ exhausted /\ Ended)
        => (pc = "done" /\ frame_queue = <<>> /\ writer = "released")

\* C5: however the render loop of stabilize stops (source drained, cap
\* reached, quit key), the run ends without error with the sink released
\* and the source released.  Stated for a smoother that raises below its
\* window, so that every run that leaves the render loop ran the smoother
\* inside its domain.
C5_HandlesReleasedOnEveryStop ==
    (/\ Stabilizing /\ short_policy = "raise"
     /\ last_break \in {"drained", "cap", "quit"} /\ Ended)
        => (pc = "done" /\ writer = "released" /\ vid_cap.released)

\* C6: with max_frames = m, stabilize writes no frame of index >= m and at
\* most m frames, and once an index >= m is popped the loop is left,
\* whatever the frame buffer still holds.
C6_CapRespected ==
    Stabilizing =>
        /\ \A k \in 1..Len(written) : written[k].index < max_frames
        /\ Len(written) <= max_frames
        /\ last_break = "cap" => pc # "render_loop"

C6_Witness ==
    /\ Stabilizing /\ last_break = "cap"
    /\ written # <<>>
    /\ frame_queue # <<>>

\* C7: unless the source was exhausted by then, the first frame is written
\* only after at least min(w, max_frames) frames have been read and
\* admitted to the frame buffer.
C7_FirstWriteAfterWindow ==
    (Stabilizing /\ written # <<>> /\ ~written[1].exhausted)
        => written[1].admitted >= Min(smoothing_window, max_frames)

C7_Witness ==
    /\ Stabilizing /\ written # <<>> /\ ~written[1].exhausted
    /\ smoothing_window >= 3 /\ max_frames = Inf
    /\ written[1].admitted = smoothing_window + 2

\* C8: in a stabilize run with no cap and no quit, every frame read from
\* the source is either still in the frame buffer or has been written (so
\* none leaves the buffer unrendered), and at the end each has been written.
C8_EveryAdmittedFrameRendered ==
    (Stabilizing /\ max_frames = Inf /\ last_break # "quit" /\ err = "")
        => /\ \A f \in 0..(vid_cap.pos - 1) :
                f \in QueuedFrames \/ f \in WrittenFrames
           /\ pc = "done" => \A f \in 0..(vid_cap.pos - 1) : f \in WrittenFrames

\* C9: in every state of gen_transforms and of stabilize the frame deque
\* and the index deque hold at most smoothing_window entries.
C9_BuffersBounded ==
    /\ Len(frame_queue) <= smoothing_window
    /\ Len(frame_queue_inds) <= smoothing_window

C9_Witness ==
    /\ Len(frame_queue) = smoothing_window
    /\ Len(frame_queue_inds) = smoothing_window
    /\ smoothing_window >= 2
    /\ vid_cap.pos > smoothing_window + 1

\* C10: the accumulated trajectory has one row per accumulated delta and
\* row i is the componentwise sum of the deltas up to i (the first row is
\* the first delta); the published trajectory array is a copy of its rows.
C10_TrajectoryIsRunningSum ==
    /\ Len(acc_trajectory) = Len(raw_transforms)
    /\ \A i \in 1..Len(acc_trajectory) :
          acc_trajectory[i] = Sum3(raw_transforms, 1, i)
    /\ Len(trajectory) <= Len(acc_trajectory)
    /\ \A i \in 1..Len(trajectory) : trajectory[i] = Sum3(raw_transforms, 1, i)

C10_Witness ==
    /\ Len(raw_transforms) >= 4
    /\ raw_transforms[1] # Zero3
    /\ raw_transforms[2] = Zero3
    /\ raw_transforms[3] # Zero3
    /\ trajectory = acc_trajectory

\* C11: whenever stabilize renders the buffer entry with index i, i is a
\* valid index of the transform array of that moment and each component of
\* the compensation applied is MotionDelta[i] + (SmoothedTrajectory[i] -
\* Trajectory[i]) over the arrays of that moment (the fractions compared
\* by cross-multiplication; an undefined mean gives an undefined
\* compensation).
C11_CompensationOfRenderedIndex ==
    \A k \in 1..Len(written) :
        LET e == written[k]
            Agrees(c, delta, s, t) ==
                /\ IsNaN(s) <=> IsNaN(c)
                /\ ~IsNaN(s) =>
                      c[1] * s[2] = c[2] * (delta * s[2] + s[1] - t * s[2])
        IN /\ e.index >= 0
           /\ e.index < e.n_transforms
           /\ \A j \in 1..3 :
                 Agrees(e.transform[j], e.delta[j], e.smoothed[j], e.traj[j])

C11_Witness ==
    \E k \in 1..Len(written) :
        /\ written[k].index >= 1
        /\ ~IsNaN(written[k].smoothed[1])
        /\ written[k].smoothed[1] # RatOfInt(written[k].traj[1])
        /\ written[k].delta[1] # 0

\* C12: when gen_transforms has run twice on the same source with the same
\* window on one VidStab (the first run's smoother given at least
\* smoothing_window rows), the Trajectory and SmoothedTrajectory arrays
\* after the second run equal those after the first.
C12_SecondAnalysisIdentical ==
    (/\ op = "gen_transforms"
     /\ calls = 2
     /\ pc = "done"
     /\ Len(at_call.trajectory) >= smoothing_window)
    => /\ trajectory = at_call.trajectory
       /\ smoothed_trajectory = at_call.smoothed

\* C13: when apply_transforms, or stabilize with use_stored_transforms=True,
\* has ended after a gen_transforms of the same source (whose smoother was
\* given at least smoothing_window rows), it ended without error, wrote
\* frames, appended no MotionDelta and left Trajectory, SmoothedTrajectory
\* and CompensationTransform as the analysis stored them.
C13_RenderFromStoredAnalysis ==
    (/\ op = "stabilize"
     /\ calls = 2
     /\ Ended
     /\ Len(at_call.trajectory) >= smoothing_window)
    => /\ pc = "done"
       /\ Len(written) >= 1
       /\ Len(raw_transforms) = Len(at_call.raw)
       /\ trajectory = at_call.trajectory
       /\ smoothed_trajectory = at_call.smoothed
       /\ transforms = at_call.transforms

\* C14: for a window w >= 1 and a trajectory of at least w rows the
\* smoother returns as many rows as it was given; per component row i
\* (from 0) is the mean of T[i-w+1..i] when i >= w-1 and equals row w-1
\* when i < w-1.  For w = 5 and T = [1..7] the result is [3,3,3,3,3,4,5].
C14_SmootherIsBackfilledRollingMean ==
    pc = "smoothed" =>
        LET w == smoothing_window
            T == trajectory
            S == smoothed_trajectory
        IN /\ Len(S) = Len(T)
           /\ \A i \in w..Len(T) : \A j \in 1..3 :
                 /\ S[i][j][2] > 0
                 /\ S[i][j][1] * w = S[i][j][2] * Sum3(T, i - w + 1, i)[j]
           /\ \A i \in 1..(w - 1) : S[i] = S[w]
           /\ (T = ExampleTrajectory /\ w = 5) =>
                 [i \in 1..7 |-> S[i][1]] =
                     <<<<3, 1>>, <<3, 1>>, <<3, 1>>, <<3, 1>>, <<3, 1>>,
                       <<4, 1>>, <<5, 1>>>>

C14_Witness ==
    /\ pc = "smoothed"
    /\ trajectory = ExampleTrajectory
    /\ smoothing_window = 5
    /\ Len(smoothed_trajectory) = 7

\* C15: for a frame of h rows and v columns and k > 0 with 2k < min(h, v),
\* border_size 0 renders h x v, border_size k renders (h+2k) x (v+2k) and
\* border_size -k renders (h-2k) x (v-2k); the k and -k renderings of one
\* frame differ by 4k per dimension and the -k one is smaller than the
\* border_size 0 one.
C15_OutputShapeFollowsBorderSize ==
    pc = "shaped" =>
        LET h == shape_in.h
            v == shape_in.v
            b == shape_in.border_size
            k == Abs(b)
        IN /\ b = 0 => shape_out = <<h, v>>
           /\ (b > 0 /\ 2 * k < Min(h, v)) => shape_out = <<h + 2 * k, v + 2 * k>>
           /\ (b < 0 /\ 2 * k < Min(h, v)) =>
                 /\ shape_out = <<h - 2 * k, v - 2 * k>>
                 /\ \A d \in 1..2 :
                       /\ RenderedShape(h, v, k)[d] - shape_out[d] = 4 * k
                       /\ shape_out[d] < RenderedShape(h, v, 0)[d]

C15_Witness ==
    /\ pc = "shaped"
    /\ shape_in = [h |-> 6, v |-> 5, border_size |-> -2]
    /\ shape_out = <<2, 1>>

\* C16: a frame pair on which the rigid fit returned none contributes the
\* delta (0, 0, 0), so its trajectory row repeats the row before it; the
\* estimation step that met it raised nothing, the detector state is that
\* of the pair's current frame, and every pair with a fit contributes that
\* fit's delta on top of the row before it.
C16_NoFitIsZeroMotion ==
    LET fits == source.fits
        Before(p) == IF p = 1 THEN Zero3 ELSE acc_trajectory[p - 1]
    IN /\ Len(raw_transforms) = Len(fits)
       /\ Len(acc_trajectory) = Len(fits)
       /\ \A p \in 1..Len(fits) :
             IF fits[p] = NoFit
             THEN /\ raw_transforms[p] = Zero3
                  /\ acc_trajectory[p] = Before(p)
             ELSE /\ raw_transforms[p] = fits[p]
                  /\ acc_trajectory[p] = Add3(Before(p), fits[p])
       /\ Len(fits) >= 1 =>
             /\ prev_gray = Len(fits)
             /\ prev_kps = Len(fits)
             /\ (fits[Len(fits)] = NoFit /\ pc = "init_loop") => err = ""

C16_Witness ==
    /\ pc = "done"
    /\ \E p \in 2..(Len(source.fits) - 1) :
          /\ source.fits[p - 1] # NoFit
          /\ source.fits[p] = NoFit
          /\ source.fits[p + 1] # NoFit
          /\ acc_trajectory[p] = acc_trajectory[p - 1]
          /\ acc_trajectory[p + 1] # acc_trajectory[p]

\* C17: every frame stabilize writes (the smoother raising on fewer rows
\* than its window) was popped together with the index of its own frame
\* pair: the frame is the destination frame of MotionDelta[index], the one
\* read right after the frame that delta was measured from.
C17_FrameWarpedWithOwnDelta ==
    (Stabilizing /\ short_policy = "raise") =>
        \A k \in 1..Len(written) : written[k].frame = written[k].index + 1

\* C18: a frame is rendered by stabilize (the smoother raising on fewer
\* rows than its window) only when at least smoothing_window frames have
\* been admitted from the source after it, or when the source has already
\* reported exhaustion.
C18_RenderedAfterWindowAdmitted ==
    (Stabilizing /\ short_policy = "raise") =>
        \A k \in 1..Len(written) :
            \/ written[k].exhausted
            \/ written[k].admitted - (written[k].frame + 1) >= smoothing_window

\* C19: with a layering function configured, stabilize (the smoother
\* raising on fewer rows than its window) leaves exactly the first frame
\* it writes unlayered and layers every later one over the output written
\* just before it, never over an unwarped source frame.
C19_LayeringSkipsOnlyFirstFrame ==
    (Stabilizing /\ layer_func /\ short_policy = "raise") =>
        \A k \in 1..Len(written) :
            /\ written[k].layered <=> k > 1
            /\ k > 1 => written[k].background = OutputFrame(written[k - 1].frame)

\* C20: when the accumulated trajectory holds at least smoothing_window
\* rows and the arrays are those computed from it, a step that accumulates
\* one more delta and recomputes the arrays leaves every existing row of
\* Trajectory, SmoothedTrajectory and CompensationTransform as it was and
\* adds one last row to each.
C20_RecomputationOnlyAppends ==
    [][(/\ Len(acc_trajectory) >= smoothing_window
        /\ Len(trajectory) = Len(acc_trajectory)
        /\ Len(acc_trajectory') = Len(acc_trajectory) + 1
        /\ Len(trajectory') = Len(acc_trajectory'))
       => /\ Len(smoothed_trajectory') = Len(smoothed_trajectory) + 1
          /\ Len(transforms') = Len(transforms) + 1
          /\ \A i \in 1..Len(trajectory) :
                /\ trajectory'[i] = trajectory[i]
                /\ smoothed_trajectory'[i] = smoothed_trajectory[i]
                /\ transforms'[i] = transforms[i]]_vars

C20_Witness ==
    /\ Stabilizing
    /\ smoothing_window >= 2
    /\ Len(trajectory) >= smoothing_window + 2
    /\ trajectory = acc_trajectory
    /\ trajectory[Len(trajectory)] # trajectory[Len(trajectory) - 1]
    /\ smoothed_trajectory[1] = smoothed_trajectory[smoothing_window]
    /\ smoothed_trajectory[Len(trajectory)] # smoothed_trajectory[1]

\* C21: in a stabilize call that has written a frame (the smoother raising
\* on fewer rows than its window) the sink was opened in that call, before
\* the first write, and every write went to a sink that was open; this
\* holds for the first call on a VidStab and for a second one.
C21_WritesGoToSinkOpenedInCall ==
    (Stabilizing /\ short_policy = "raise" /\ Len(written) >= 1) =>
        /\ at_call.writer = "None"
        /\ \A k \in 1..Len(written) : written[k].sink = "open"

\* C22: every step of gen_transforms or stabilize that invokes the smoother
\* (the end of _init_trajectory, and each render-loop iteration that
\* accumulated a delta) passes it an accumulated trajectory of at least
\* smoothing_window rows.
C22_SmootherGivenFullWindow ==
    [][(\/ pc = "init_gen"
        \/ pc = "render_loop" /\ Len(acc_trajectory') > Len(acc_trajectory))
       => Len(acc_trajectory') >= smoothing_window]_vars

=============================================================================
